---- MODULE Spec2Model ----
(***************************************************************************)
(* State-machine model of the go-resilience policy executor: the retry     *)
(* loop (retry.go), the circuit-breaker gate (circuitbreaker.go), the      *)
(* timeout guard and the composition of the three (policy.go).             *)
(*                                                                         *)
(* Time passes in ticks.  A deadline (a retry timer, a timeout context's    *)
(* deadline, the breaker's expiry) is kept as the number of ticks left      *)
(* until it is reached, i.e. as deadline - time.Now(); Tick lets one tick   *)
(* pass for all of them.                                                    *)
(* Every executor call runs in a caller c; the timeout guard adds one      *)
(* background goroutine per attempt.                                       *)
(***************************************************************************)
EXTENDS Integers, Sequences, FiniteSets, TLC

(* ------------------------------ bounds -------------------------------- *)
NumCallers == 2      \* concurrent users of one executor
MaxCalls == 4        \* executor calls in one run through a breaker alone
MaxRetryCalls == 3   \* executor calls in one run of a retry loop
MaxGuardCalls == 2   \* executor calls in one run with a timeout guard
MaxNestedCalls == 2  \* executor calls in one run of a retry loop around a breaker
MaxLoopCalls == 1    \* executor calls in one run of a retry loop around a timeout guard
MaxRetriesBound == 2 \* largest configured maxRetries
MaxDuration == 1     \* largest retry delay / timeout, in ticks
MaxInterval == 1     \* largest breaker counter interval, in ticks
MaxCbTimeout == 1    \* largest breaker cool-down, in ticks
MaxFailures == 2     \* largest configured failure threshold
MaxMaxRequests == 2  \* largest configured half-open probe cap
MaxAttempts == 3     \* operation invocations of one call when maxRetries < 0
MaxLongCalls == 5    \* executor calls in one run through a breaker of threshold >= 2
MaxSharedCalls == 5  \* Provider.Policy calls and executor calls in one run of a provider

Callers == 1..NumCallers

(* ------------------------------ values -------------------------------- *)
Nil == "nil"
Values == {"v1"}
OpErrors == {"e1", "e2"}
ErrOpenState == "ErrOpenState"              \* circuitbreaker.go:10
ErrTooManyRequests == "ErrTooManyRequests"  \* circuitbreaker.go:11
DeadlineExceeded == "DeadlineExceeded"      \* context.DeadlineExceeded
Canceled == "Canceled"                      \* context.Canceled
ErrPanicked == "operation panicked"         \* policy.go:68

\* what one invocation of the caller's operation may return
OpOutcomes ==
  [val : Values, err : {Nil}] \cup [val : {Nil}, err : OpErrors]

\* operationResult plus the backoff.Permanent marker
Result(v, e, p) == [val |-> v, err |-> e, perm |-> p]
NilResult == Result(Nil, Nil, FALSE)

VARIABLES
  policy,   \* the Policy the executor was built from
  ctxErr,   \* ctx.Err() of the ambient context bound to the executor
  ncalls,   \* executor calls the run may still start
  breaker,  \* the shared gobreaker state
  pc,       \* per caller: position in the executor call
  res,      \* per caller: result of the current attempt / of the call
  retryst,  \* per caller: backoff state [numTries] and the timer [wake: ticks left]
  gen,      \* per caller: generation returned by beforeRequest
  guard,    \* per caller: timeout guard of the current attempt
  orph,     \* per caller: goroutines left behind by returned waiters
  hist,     \* per caller: record of the operation's invocations in this call
  seen,     \* history of the calls that went through the breaker
  prov      \* the Config, the Provider built from it and the policies it handed out

vars == <<policy, ctxErr, ncalls, breaker, pc, res, retryst, gen, guard,
          orph, hist, seen, prov>>

(* ------------------------------ policies ------------------------------ *)
\* Policy (policy.go:20-24) with the retry and breaker it points to.
PolicyRec(to, hasRetry, n, d, hasCb, mr, iv, cto, f) ==
  [timeout |-> to, retry |-> hasRetry, maxRetries |-> n, duration |-> d,
   cb |-> hasCb, maxRequests |-> mr, interval |-> iv, cbTimeout |-> cto,
   failures |-> f, nil |-> FALSE]

\* NewExecutor(ctx, nil) (policy.go:27-31): no Policy to read
NilPolicy == [PolicyRec(0, FALSE, 0, 0, FALSE, 1, 0, 1, 1) EXCEPT !.nil = TRUE]

\* &Policy{}: the zero value
EmptyPolicy == PolicyRec(0, FALSE, 0, 0, FALSE, 1, 0, 1, 1)

\* newCircuitBreaker (circuitbreaker.go:18-46) hands MaxRequests, Interval,
\* Timeout and the trip function to gobreaker, which reads MaxRequests = 0 as 1.
BreakerOnlyPolicies ==
  { PolicyRec(0, FALSE, 0, 0, TRUE, mr, iv, cto, f) :
      mr \in 1..MaxMaxRequests, iv \in 0..MaxInterval, cto \in 1..MaxCbTimeout,
      f \in 1..MaxFailures }

\* The same with a threshold of 2 or more and a probe cap of 1.
ThresholdPolicies ==
  { PolicyRec(0, FALSE, 0, 0, TRUE, 1, iv, cto, f) :
      iv \in 0..MaxInterval, cto \in 1..MaxCbTimeout, f \in 2..MaxFailures }

TimeoutOnlyPolicies ==
  { PolicyRec(to, FALSE, 0, 0, FALSE, 1, 0, 1, 1) : to \in 1..MaxDuration }

RetryOnlyPolicies ==
  { PolicyRec(0, TRUE, n, d, FALSE, 1, 0, 1, 1) :
      n \in (-1)..MaxRetriesBound, d \in 0..MaxDuration }

\* Policy{retry: r, circuitBreaker: cb}
RetryBreakerPolicies ==
  { PolicyRec(0, TRUE, n, d, TRUE, 1, 0, cto, 1) :
      n \in 0..MaxRetriesBound, d \in 0..MaxDuration, cto \in 1..MaxCbTimeout }

\* The same with every threshold and counter interval.
NestedPolicies ==
  { PolicyRec(0, TRUE, n, d, TRUE, 1, iv, cto, f) :
      n \in 0..MaxRetriesBound, d \in 0..MaxDuration, iv \in 0..MaxInterval,
      cto \in 1..MaxCbTimeout, f \in 1..MaxFailures }

\* Policy{timeout: to, circuitBreaker: cb}
GuardBreakerPolicies ==
  { PolicyRec(to, FALSE, 0, 0, TRUE, 1, iv, cto, f) :
      to \in 1..MaxDuration, iv \in 0..MaxInterval, cto \in 1..MaxCbTimeout,
      f \in 1..MaxFailures }

\* Policy{timeout: to, retry: r} and Policy{retry: r}, with or without a breaker
RetryGuardPolicies ==
  { PolicyRec(to, TRUE, n, d, hasCb, 1, 0, 1, 1) :
      to \in 0..MaxDuration, n \in 0..MaxRetriesBound, d \in 0..MaxDuration,
      hasCb \in BOOLEAN }

(* ------------------------------ provider ------------------------------ *)
\* Provider (circuitbreaker_test.go:345-350) as configure leaves it: targets maps
\* a target to the three names it selects ("" for none); timeouts, retries and
\* circuitBreakers map names to what was built for them.
TargetNames == {"a", "b"}
GuardNames == {"a", "b"}
Selections == GuardNames \cup {""}

Providers ==
  [targets : UNION { [D -> [timeout : Selections, retry : Selections,
                            circuitBreaker : Selections]] : D \in SUBSET {"a"} },
   timeouts : UNION { [D -> {MaxDuration}] : D \in SUBSET GuardNames },
   retries : UNION { [D -> {[duration |-> 0, maxRetries |-> MaxRetriesBound]}] :
                       D \in SUBSET GuardNames },
   circuitBreakers : UNION { [D -> {[maxRequests |-> 1, interval |-> 0,
                                     timeout |-> 1, failures |-> 1]}] :
                               D \in SUBSET GuardNames }]

\* Provider.Policy (circuitbreaker_test.go:367-391): a guard is set when the
\* target is known, names it, and the name is known; everything else is left
\* at its zero value.
ProviderPolicyByTargetName(p, target) ==
  LET hasTo == target \in DOMAIN p.timeouts
      hasRt == target \in DOMAIN p.retries
      hasCb == target \in DOMAIN p.circuitBreakers
  IN PolicyRec(IF hasTo THEN p.timeouts[target] ELSE 0,
               hasRt,
               IF hasRt THEN p.retries[target].maxRetries ELSE 0,
               IF hasRt THEN p.retries[target].duration ELSE 0,
               hasCb,
               IF hasCb THEN p.circuitBreakers[target].maxRequests ELSE 1,
               IF hasCb THEN p.circuitBreakers[target].interval ELSE 0,
               IF hasCb THEN p.circuitBreakers[target].timeout ELSE 1,
               IF hasCb THEN p.circuitBreakers[target].failures ELSE 1)

ProviderPolicy(p, target) ==
  LET known == target \in DOMAIN p.targets
      hasTo == known /\ p.targets[target].timeout # ""
                 /\ p.targets[target].timeout \in DOMAIN p.timeouts
      hasRt == known /\ p.targets[target].retry # ""
                 /\ p.targets[target].retry \in DOMAIN p.retries
      hasCb == known /\ p.targets[target].circuitBreaker # ""
                 /\ p.targets[target].circuitBreaker \in DOMAIN p.circuitBreakers
      rt == p.retries[p.targets[target].retry]
      cb == p.circuitBreakers[p.targets[target].circuitBreaker]
  IN PolicyRec(IF hasTo THEN p.timeouts[p.targets[target].timeout] ELSE 0,
               hasRt,
               IF hasRt THEN rt.maxRetries ELSE 0,
               IF hasRt THEN rt.duration ELSE 0,
               hasCb,
               IF hasCb THEN cb.maxRequests ELSE 1,
               IF hasCb THEN cb.interval ELSE 0,
               IF hasCb THEN cb.timeout ELSE 1,
               IF hasCb THEN cb.failures ELSE 1)

\* The policies of the targets a provider does not know.
UnknownTargetPolicies ==
  { ProviderPolicy(p, t) :
      <<p, t>> \in { q \in Providers \X TargetNames : q[2] \notin DOMAIN q[1].targets } }

\* No guard configured: nil policy, empty policy, unknown target.
UnguardedPolicies == {NilPolicy, EmptyPolicy} \cup UnknownTargetPolicies

(* ------------------------------ configuration ------------------------ *)
\* A duration text is a sequence of characters.
Digits == {"0", "1"}

DigitVal(ch) == IF ch = "1" THEN 1 ELSE 0

RECURSIVE DigitsLen(_)
DigitsLen(s) ==
  IF s = <<>> \/ Head(s) \notin Digits THEN 0 ELSE 1 + DigitsLen(Tail(s))

RECURSIVE UnitLen(_)
UnitLen(s) ==
  IF s = <<>> \/ Head(s) \in Digits THEN 0 ELSE 1 + UnitLen(Tail(s))

\* strconv.ParseInt(val, 10, 64) on an unsigned decimal text
RECURSIVE Atoi(_)
Atoi(s) ==
  IF s = <<>> THEN 0
  ELSE 10 * Atoi(SubSeq(s, 1, Len(s) - 1)) + DigitVal(s[Len(s)])

IsInt(s) == s # <<>> /\ DigitsLen(s) = Len(s)

\* time.ParseDuration's unit table, in microseconds (-1: unknown unit)
UnitMicros(u) ==
  CASE u = <<"m", "s">> -> 1000
    [] u = <<"s">> -> 1000000
    [] u = <<"m">> -> 60000000
    [] OTHER -> -1

ParseError == [ok |-> FALSE, d |-> 0]

\* time.ParseDuration: "0", or one or more groups of a number and a unit.
RECURSIVE ParseGroups(_)
ParseGroups(s) ==
  IF s = <<>> THEN [ok |-> TRUE, d |-> 0]
  ELSE LET n == DigitsLen(s)
           rest == SubSeq(s, n + 1, Len(s))
           u == UnitLen(rest)
           unit == SubSeq(rest, 1, u)
           tail == ParseGroups(SubSeq(rest, u + 1, Len(rest)))
       IN IF n = 0 \/ u = 0 \/ UnitMicros(unit) < 0 \/ ~tail.ok THEN ParseError
          ELSE [ok |-> TRUE, d |-> Atoi(SubSeq(s, 1, n)) * UnitMicros(unit) + tail.d]

TimeParseDuration(s) ==
  IF s = <<"0">> THEN [ok |-> TRUE, d |-> 0]
  ELSE IF s = <<>> THEN ParseError
  ELSE ParseGroups(s)

\* parseDuration (circuitbreaker_test.go:430-440): "" is zero, a bare integer is
\* a count of microseconds, anything else goes to time.ParseDuration.
parseDuration(val) ==
  IF val = <<>> THEN [ok |-> TRUE, d |-> 0]
  ELSE IF IsInt(val) THEN [ok |-> TRUE, d |-> Atoi(val)]
  ELSE TimeParseDuration(val)

\* The duration texts the configs are drawn from: empty, integers, structured
\* ones, and malformed ones (no number, unknown unit, missing unit).
TimeoutTexts == {<<>>, <<"1", "0">>, <<"1", "m", "s">>, <<"1", "x">>}
RetryTexts == {<<"1", "s">>, <<"x">>}
BreakerTexts ==
  {[interval |-> <<>>, timeout |-> <<"1">>],
   [interval |-> <<"m", "s">>, timeout |-> <<"1">>],
   [interval |-> <<>>, timeout |-> <<"1", "m", "1">>]}

\* Config (unnamed/part_000): named definitions and targets.
Configs ==
  [Timeouts : UNION { [D -> TimeoutTexts] : D \in SUBSET GuardNames },
   Retries : UNION { [D -> [Duration : RetryTexts, MaxRetries : {MaxRetriesBound}]] :
                       D \in SUBSET GuardNames },
   CircuitBreakers :
     UNION { [D -> { [MaxRequests |-> 1, Interval |-> t.interval,
                      Timeout |-> t.timeout, Failures |-> 1] : t \in BreakerTexts }] :
               D \in SUBSET GuardNames },
   Targets : UNION { [D -> [timeout : Selections, retry : Selections,
                            circuitBreaker : Selections]] : D \in SUBSET {"a"} }]

\* newRetry (retry.go:16-23)
newRetry(r) ==
  LET duration == parseDuration(r.Duration)
  IN [ok |-> duration.ok,
      retry |-> [duration |-> duration.d, maxRetries |-> r.MaxRetries]]

\* newCircuitBreaker (circuitbreaker.go:18-46): the interval is parsed first,
\* then the timeout.
newCircuitBreaker(config) ==
  LET interval == parseDuration(config.Interval)
      timeout == parseDuration(config.Timeout)
  IN [ok |-> interval.ok /\ timeout.ok,
      cb |-> [maxRequests |-> config.MaxRequests, interval |-> interval.d,
              timeout |-> timeout.d, failures |-> config.Failures]]

\* Provider.configure (circuitbreaker_test.go:393-428) goes through the
\* timeouts, the retries and the breakers, in that order, each map in any
\* order, and returns at the first definition that does not parse.  The names
\* whose definition may be the one it stops at:
ConfigureStopsAtUsedOnly(cfg) ==
  LET used(k) == { cfg.Targets[t][k] : t \in DOMAIN cfg.Targets }
      badT == { n \in DOMAIN cfg.Timeouts \cap used("timeout") :
                  ~parseDuration(cfg.Timeouts[n]).ok }
      badR == { n \in DOMAIN cfg.Retries \cap used("retry") :
                  ~newRetry(cfg.Retries[n]).ok }
      badC == { n \in DOMAIN cfg.CircuitBreakers \cap used("circuitBreaker") :
                  ~newCircuitBreaker(cfg.CircuitBreakers[n]).ok }
  IN IF badT # {} THEN { [in |-> "timeout", name |-> n] : n \in badT }
     ELSE IF badR # {} THEN { [in |-> "retry", name |-> n] : n \in badR }
     ELSE { [in |-> "circuit breaker", name |-> n] : n \in badC }

ConfigureStopsAt(cfg) ==
  LET badT == { n \in DOMAIN cfg.Timeouts : ~parseDuration(cfg.Timeouts[n]).ok }
      badR == { n \in DOMAIN cfg.Retries : ~newRetry(cfg.Retries[n]).ok }
      badC == { n \in DOMAIN cfg.CircuitBreakers :
                  ~newCircuitBreaker(cfg.CircuitBreakers[n]).ok }
  IN IF badT # {} THEN { [in |-> "timeout", name |-> n] : n \in badT }
     ELSE IF badR # {} THEN { [in |-> "retry", name |-> n] : n \in badR }
     ELSE { [in |-> "circuit breaker", name |-> n] : n \in badC }

\* The Provider configure fills when every definition parses; the targets keep
\* the names they select, whether or not the names have a definition.
Configured(cfg) ==
  [targets |-> cfg.Targets,
   timeouts |-> [n \in DOMAIN cfg.Timeouts |-> parseDuration(cfg.Timeouts[n]).d],
   retries |-> [n \in DOMAIN cfg.Retries |-> newRetry(cfg.Retries[n]).retry],
   circuitBreakers |->
     [n \in DOMAIN cfg.CircuitBreakers |-> newCircuitBreaker(cfg.CircuitBreakers[n]).cb]]

\* Policy.circuitBreaker of Provider.Policy(target): the *circuitBreaker that
\* configure made for the selected name, the same one at every call ("" for
\* nil).  A breaker object is identified by the name it was made for.
PolicyBreakerPerCall(p, target, call) ==
  IF /\ target \in DOMAIN p.targets
     /\ p.targets[target].circuitBreaker # ""
     /\ p.targets[target].circuitBreaker \in DOMAIN p.circuitBreakers
    THEN p.targets[target].circuitBreaker \o "#" \o ToString(call)
  ELSE ""

PolicyBreaker(p, target, call) ==
  IF /\ target \in DOMAIN p.targets
     /\ p.targets[target].circuitBreaker # ""
     /\ p.targets[target].circuitBreaker \in DOMAIN p.circuitBreakers
    THEN p.targets[target].circuitBreaker
  ELSE ""

\* cfg: the Config; p: the *Provider FromConfig returned and err: the error it
\* returned, each as a set that is empty for nil; pol: per caller, the target it asked Provider.Policy for, the
\* Policy it got and that Policy's breaker; cbs: the state of the breakers the
\* provider's policies point to; trip: per breaker name, the caller whose
\* recorded failure last opened the breaker of a policy that selects the name,
\* and the ticks passed since (-1: never opened).
NoPolicy == [target |-> "", policy |-> NilPolicy, cb |-> ""]

EmptyConfig ==
  [Timeouts |-> <<>>, Retries |-> <<>>, CircuitBreakers |-> <<>>, Targets |-> <<>>]

\* No provider: executors built from a Policy made directly.
NoProvider ==
  [cfg |-> EmptyConfig, p |-> {}, err |-> {}, pol |-> [c \in Callers |-> NoPolicy],
   cbs |-> <<>>, trip |-> [n \in GuardNames |-> [by |-> 0, age |-> -1]]]

(* ------------------------------ initial state ------------------------- *)
\* gobreaker.NewCircuitBreaker: closed, first generation; InitWith sets the
\* expiry of that generation from the interval (none when the interval is 0).
InitBreaker ==
  [state |-> "closed", generation |-> 1, requests |-> 0, totalFail |-> 0,
   consecSucc |-> 0, consecFail |-> 0, expires |-> FALSE, left |-> 0]

NoResult == [val |-> Nil, err |-> Nil]

\* deadline: ticks left on timeoutCtx; err: timeoutCtx.Err(); ch: resultCh (its one
\* slot); gpc: position of the background goroutine; gres: what its operation
\* returned.
InitGuard ==
  [deadline |-> 0, err |-> Nil, full |-> FALSE, ch |-> NoResult, gpc |-> "none",
   gres |-> NoResult]

NoOrphans ==
  [t \in {"cur", "old"} |-> [ready |-> 0, running |-> 0, deliver |-> 0]]

\* invoked: invocations of the operation started in this call; nfail, nsucc:
\* those that returned an error, a value; last: what the last one returned;
\* rejected: the breaker's rejection, if an attempt was rejected; opFirst: the
\* operation returned while the timeout context was live; dl: whether the
\* deadline fired before the waiter returned: "parked" / "late" when the
\* operation had not returned yet and the waiter was / was not yet blocked in
\* its select, "after" when the operation had returned; tries: attempts that
\* entered the timeout guard; slow: those in which the deadline fired before
\* the operation had returned; panicked: an invocation the guard was waiting for
\* panicked; errs: the errors the invocations returned, where the run keeps them.
InitHist ==
  [invoked |-> 0, nfail |-> 0, nsucc |-> 0, last |-> [val |-> Nil, err |-> Nil],
   rejected |-> Nil, opFirst |-> FALSE, dl |-> "no", tries |-> 0, slow |-> 0,
   panicked |-> FALSE, errs |-> {}]

\* streak: calls in a row whose operation ran and failed; tstreak: calls in a
\* row that ended with the timeout guard's deadline error; win: failures the
\* breaker recorded since a success or since its counts were last cleared;
\* probes: calls admitted since the breaker last became half-open; probeOk:
\* probe calls that succeeded in a row since then; lastCall: how the last
\* completed call through the breaker ended.
InitSeen ==
  [streak |-> 0, tstreak |-> 0, win |-> 0, probes |-> 0, probeOk |-> 0,
   lastCall |-> "none"]

InitState(P, n) ==
  /\ policy \in P
  /\ ctxErr = Nil
  /\ ncalls = n
  /\ breaker = [InitBreaker EXCEPT !.expires = policy.interval > 0,
                                  !.left = policy.interval]
  /\ pc = [c \in Callers |-> "idle"]
  /\ res = [c \in Callers |-> NilResult]
  /\ retryst = [c \in Callers |-> [numTries |-> 0, wake |-> 0]]
  /\ gen = [c \in Callers |-> 0]
  /\ guard = [c \in Callers |-> InitGuard]
  /\ orph = [c \in Callers |-> NoOrphans]
  /\ hist = [c \in Callers |-> InitHist]
  /\ seen = InitSeen

\* An executor built from a Policy made directly: no provider is involved.
InitWith(P, n) ==
  /\ InitState(P, n)
  /\ prov = NoProvider

(* ------------------------------ provider calls ----------------------- *)
\* gobreaker.NewCircuitBreaker for the settings newCircuitBreaker passes
NewBreaker(cb) ==
  [InitBreaker EXCEPT !.expires = cb.interval > 0, !.left = cb.interval]

\* FromConfig (circuitbreaker_test.go:352-365): a provider with one breaker per
\* circuit-breaker definition, or configure's error.
FromConfig ==
  /\ prov.p = {} /\ prov.err = {}
  /\ LET errs == ConfigureStopsAt(prov.cfg)
         p == Configured(prov.cfg)
     IN IF errs = {}
          THEN prov' = [prov EXCEPT
                 !.p = {p},
                 !.cbs = [n \in DOMAIN p.circuitBreakers |->
                            NewBreaker(p.circuitBreakers[n])]]
        ELSE \E e \in errs : prov' = [prov EXCEPT !.err = {e}]
  /\ UNCHANGED <<policy, ctxErr, ncalls, breaker, pc, res, retryst, gen, guard,
                 orph, hist, seen>>

\* Provider.Policy(target) (circuitbreaker_test.go:367-391), called by c on the
\* provider FromConfig returned; c builds its next executor from the Policy.
\* The breaker the Policy points to has state.
GetPolicy(c) ==
  /\ pc[c] \in {"idle", "returned"}
  /\ ncalls > 0
  /\ ncalls' = ncalls - 1
  /\ \E p \in prov.p, target \in TargetNames :
       LET cb == PolicyBreaker(p, target, c)
       IN prov' = [prov EXCEPT
            !.pol[c] = [target |-> target, policy |-> ProviderPolicy(p, target),
                        cb |-> cb],
            !.cbs = [r \in DOMAIN prov.cbs \cup ({cb} \ {""}) |->
                       IF r \in DOMAIN prov.cbs THEN prov.cbs[r]
                       ELSE NewBreaker(p.circuitBreakers[p.targets[target].circuitBreaker])]]
  /\ UNCHANGED <<policy, ctxErr, breaker, pc, res, retryst, gen, guard,
                 orph, hist, seen>>

(* ------------------------------ composition --------------------------- *)
\* NewExecutor (policy.go:33-49): timeout innermost, then breaker, retry outermost.
InnerPcAlwaysGuarded == "to_enter"

InnerPc == IF policy.timeout > 0 THEN "to_enter" ELSE "op_call"
EntryPcSkipsBreaker == IF policy.nil THEN "op_call" ELSE InnerPc

EntryPc ==
  IF policy.nil THEN "op_call" ELSE IF policy.cb THEN "cb_before" ELSE InnerPc
AfterInnerPc ==
  IF policy.nil THEN "attempt_done"
  ELSE IF policy.cb THEN "cb_after" ELSE "attempt_done"

\* Errors that wrap another error (fmt.Errorf with %w, backoff.Permanent), and
\* what their Unwrap returns; every other error unwraps to nothing.
WrappedErrors ==
  {"wrap(ErrOpenState)", "wrap(ErrTooManyRequests)", "wrap(e1)",
   "wrap(wrap(ErrOpenState))"}

Unwrap(err) ==
  CASE err = "wrap(ErrOpenState)" -> ErrOpenState
    [] err = "wrap(ErrTooManyRequests)" -> ErrTooManyRequests
    [] err = "wrap(e1)" -> "e1"
    [] err = "wrap(wrap(ErrOpenState))" -> "wrap(ErrOpenState)"
    [] err = "permanent(e1)" -> "e1"
    [] err = "wrap(permanent(e1))" -> "permanent(e1)"
    [] OTHER -> Nil

\* errors.Is(err, target) for a non-nil target: err or an error in its Unwrap
\* chain is the target.
RECURSIVE ErrorsIs(_, _)
ErrorsIs(err, target) ==
  IF err = Nil THEN FALSE
  ELSE IF err = target THEN TRUE
  ELSE ErrorsIs(Unwrap(err), target)

\* errors.As(err, &permanent) in backoff.RetryWithData: the first
\* *backoff.PermanentError in err's Unwrap chain, or nil.
RECURSIVE AsPermanent(_)
AsPermanent(err) ==
  IF err = Nil THEN Nil
  ELSE IF err = "permanent(e1)" THEN err
  ELSE AsPermanent(Unwrap(err))

\* IsErrorPermanent (circuitbreaker.go:56-58)
IsErrorPermanentOpenOnly(err) == ErrorsIs(err, ErrOpenState)

IsErrorPermanent(err) ==
  ErrorsIs(err, ErrOpenState) \/ ErrorsIs(err, ErrTooManyRequests)

\* The errors IsErrorPermanent may be handed, nil included.
AnyErrors ==
  {Nil, ErrOpenState, ErrTooManyRequests, DeadlineExceeded, Canceled, ErrPanicked}
  \cup OpErrors \cup WrappedErrors

\* A caller asks IsErrorPermanent about an error.
Classify(c) ==
  /\ pc[c] \in {"idle", "classified"}
  /\ ncalls > 0
  /\ ncalls' = ncalls - 1
  /\ \E err \in AnyErrors :
       res' = [res EXCEPT ![c] = Result(Nil, err, IsErrorPermanent(err))]
  /\ pc' = [pc EXCEPT ![c] = "classified"]
  /\ UNCHANGED <<policy, prov, seen, ctxErr, breaker, retryst, gen, guard, orph, hist>>

\* withCircuitBreaker's tail (policy.go:99-103): mark rejections permanent
\* when a retry loop encloses the breaker.
MarkPermanentNever(v, err) == Result(v, err, FALSE)

MarkPermanent(v, err) == Result(v, err, policy.retry /\ IsErrorPermanent(err))

\* The executor closure is entered: one call of the Executor.
Call(c) ==
  /\ pc[c] \in {"idle", "returned"}
  /\ ncalls > 0
  /\ ncalls' = ncalls - 1
  /\ pc' = [pc EXCEPT ![c] = EntryPc]
  /\ res' = [res EXCEPT ![c] = NilResult]
  /\ retryst' = [retryst EXCEPT ![c] = [numTries |-> 0, wake |-> 0]]
  /\ hist' = [hist EXCEPT ![c] = InitHist]
  /\ orph' = [orph EXCEPT ![c] =
       [t \in {"cur", "old"} |->
          IF t = "cur" THEN NoOrphans["cur"]
          ELSE [k \in {"ready", "running", "deliver"} |->
                  orph[c]["cur"][k] + orph[c]["old"][k]]]]
  /\ UNCHANGED <<policy, prov, seen, ctxErr, breaker, gen, guard>>

\* policy == nil or policy.retry == nil: the executor returns what the (guarded)
\* operation returned (policy.go:27-31, 44-46).
Return(c) ==
  /\ pc[c] = "attempt_done"
  /\ policy.nil \/ ~policy.retry
  /\ pc' = [pc EXCEPT ![c] = "returned"]
  /\ UNCHANGED <<policy, prov, seen, ctxErr, ncalls, breaker, res, retryst, gen, guard,
                 orph, hist>>

(* ------------------------------ the operation ------------------------- *)
\* The caller's operation is invoked on the calling goroutine (no timeout).
OpCall(c) ==
  /\ pc[c] = "op_call"
  /\ pc' = [pc EXCEPT ![c] = "op_running"]
  /\ hist' = [hist EXCEPT ![c].invoked = @ + 1]
  /\ UNCHANGED <<policy, prov, seen, ctxErr, ncalls, breaker, res, retryst, gen, guard, orph>>

Record(h, o) ==
  [h EXCEPT !.nfail = IF o.err = Nil THEN @ ELSE @ + 1,
            !.nsucc = IF o.err = Nil THEN @ + 1 ELSE @,
            !.last = o]

\* ... and returns a value or an error.
OpReturn(c) ==
  /\ pc[c] = "op_running"
  /\ \E o \in OpOutcomes :
       /\ res' = [res EXCEPT ![c] = Result(o.val, o.err, FALSE)]
       /\ hist' = [hist EXCEPT ![c] = Record(@, o)]
  /\ pc' = [pc EXCEPT ![c] = AfterInnerPc]
  /\ UNCHANGED <<policy, prov, seen, ctxErr, ncalls, breaker, retryst, gen, guard, orph>>

\* Errors of every kind an operation may hand to the retry loop: plain ones,
\* context.DeadlineExceeded of its own, the breaker's error values, errors made
\* with fmt.Errorf and %w, and errors marked with backoff.Permanent (directly or
\* inside a wrapping error).
PermanentErrors == {"permanent(e1)", "wrap(permanent(e1))"}

RetryOpErrors ==
  OpErrors \cup {DeadlineExceeded, ErrOpenState, "wrap(e1)"} \cup PermanentErrors

\* The operation returns an error of any kind under a retry-only policy.  The
\* loop's errors.As finds the permanent marker and takes the marked error out
\* (permanent.Err); res keeps the error the loop would return and the marker.
OpReturnAny(c) ==
  /\ pc[c] = "op_running"
  /\ \E err \in RetryOpErrors :
       LET marked == AsPermanent(err) # Nil
       IN /\ res' = [res EXCEPT ![c] =
                Result(Nil, IF marked THEN Unwrap(AsPermanent(err)) ELSE err, marked)]
          /\ hist' = [hist EXCEPT ![c] =
                [Record(@, [val |-> Nil, err |-> err]) EXCEPT !.errs = @ \cup {err}]]
  /\ pc' = [pc EXCEPT ![c] = AfterInnerPc]
  /\ UNCHANGED <<policy, prov, seen, ctxErr, ncalls, breaker, retryst, gen, guard, orph>>

(* ------------------------------ retry --------------------------------- *)
\* retry.backoff (retry.go:25-33): ConstantBackOff(duration), WithMaxRetries
\* when maxRetries >= 0, WithContext.  NextBackOff of that stack: backoff.Stop
\* (stop), or the delay to wait (next), and the new try count.  The context
\* layer stops once ctx is done; WithMaxRetries stops when maxRetries = 0 or
\* the tries are used up.
NextBackOffOneMore(numTries) ==
  IF ctxErr # Nil THEN [stop |-> TRUE, next |-> 0, numTries |-> numTries]
  ELSE IF policy.maxRetries >= 0
    THEN IF policy.maxRetries < numTries
           THEN [stop |-> TRUE, next |-> 0, numTries |-> numTries]
           ELSE [stop |-> FALSE, next |-> policy.duration, numTries |-> numTries + 1]
    ELSE [stop |-> FALSE, next |-> policy.duration, numTries |-> numTries]

NextBackOffNegativeAsZero(numTries) ==
  IF ctxErr # Nil THEN [stop |-> TRUE, next |-> 0, numTries |-> numTries]
  ELSE IF policy.maxRetries <= 0 \/ policy.maxRetries <= numTries
    THEN [stop |-> TRUE, next |-> 0, numTries |-> numTries]
  ELSE [stop |-> FALSE, next |-> policy.duration, numTries |-> numTries + 1]

NextBackOff(numTries) ==
  IF ctxErr # Nil THEN [stop |-> TRUE, next |-> 0, numTries |-> numTries]
  ELSE IF policy.maxRetries >= 0
    THEN IF policy.maxRetries = 0 \/ policy.maxRetries <= numTries
           THEN [stop |-> TRUE, next |-> 0, numTries |-> numTries]
           ELSE [stop |-> FALSE, next |-> policy.duration, numTries |-> numTries + 1]
    ELSE [stop |-> FALSE, next |-> policy.duration, numTries |-> numTries]

\* OperationRetry (retry.go:35-39) = backoff.RetryWithData: what the loop does
\* with the result r of an attempt, b being NextBackOff: return (a success, a
\* permanent error unwrapped, the last error or ctx.Err() when the backoff
\* stops), or wait and try again.
RetryStepKeepsGoing(r, b) ==
  IF r.err # Nil /\ r.perm THEN [ret |-> TRUE, res |-> Result(r.val, r.err, FALSE)]
  ELSE IF b.stop
    THEN [ret |-> TRUE,
          res |-> Result(r.val, IF ctxErr # Nil THEN ctxErr ELSE r.err, FALSE)]
  ELSE [ret |-> FALSE, res |-> r]

RetryStepStopsOnWrapped(r, b) ==
  IF r.err = Nil THEN [ret |-> TRUE, res |-> Result(r.val, Nil, FALSE)]
  ELSE IF r.perm \/ Unwrap(r.err) # Nil
    THEN [ret |-> TRUE, res |-> Result(r.val, r.err, FALSE)]
  ELSE IF b.stop
    THEN [ret |-> TRUE,
          res |-> Result(r.val, IF ctxErr # Nil THEN ctxErr ELSE r.err, FALSE)]
  ELSE [ret |-> FALSE, res |-> r]

RetryStepDeadlineIsFinal(r, b) ==
  IF r.err = Nil THEN [ret |-> TRUE, res |-> Result(r.val, Nil, FALSE)]
  ELSE IF r.perm \/ r.err = DeadlineExceeded
    THEN [ret |-> TRUE, res |-> Result(r.val, r.err, FALSE)]
  ELSE IF b.stop
    THEN [ret |-> TRUE,
          res |-> Result(r.val, IF ctxErr # Nil THEN ctxErr ELSE r.err, FALSE)]
  ELSE [ret |-> FALSE, res |-> r]

RetryStep(r, b) ==
  IF r.err = Nil THEN [ret |-> TRUE, res |-> Result(r.val, Nil, FALSE)]
  ELSE IF r.perm THEN [ret |-> TRUE, res |-> Result(r.val, r.err, FALSE)]
  ELSE IF b.stop
    THEN [ret |-> TRUE,
          res |-> Result(r.val, IF ctxErr # Nil THEN ctxErr ELSE r.err, FALSE)]
  ELSE [ret |-> FALSE, res |-> r]

RetryCheck(c) ==
  /\ pc[c] = "attempt_done"
  /\ policy.retry
  /\ LET b == NextBackOff(retryst[c].numTries)
         d == RetryStep(res[c], b)
     IN IF d.ret
          THEN /\ pc' = [pc EXCEPT ![c] = "returned"]
               /\ res' = [res EXCEPT ![c] = d.res]
               /\ UNCHANGED retryst
        ELSE /\ policy.maxRetries < 0 => hist[c].invoked < MaxAttempts
             /\ pc' = [pc EXCEPT ![c] = "rt_select"]
             /\ retryst' = [retryst EXCEPT ![c] =
                  [numTries |-> b.numTries, wake |-> b.next]]
             /\ UNCHANGED res
  /\ UNCHANGED <<policy, prov, seen, ctxErr, ncalls, breaker, gen, guard, orph, hist>>

\* The loop reaches its select on ctx.Done() and the timer: a ready case is
\* taken (any of them when both are ready), otherwise the goroutine parks.
RetrySelectIgnoresCtx(c) ==
  /\ pc[c] = "rt_select"
  /\ \/ /\ retryst[c].wake <= 0
        /\ pc' = [pc EXCEPT ![c] = EntryPc]
     \/ /\ retryst[c].wake > 0
        /\ pc' = [pc EXCEPT ![c] = "rt_parked"]
  /\ UNCHANGED <<policy, prov, seen, ctxErr, ncalls, breaker, res, retryst, gen, guard,
                 orph, hist>>

RetrySelect(c) ==
  /\ pc[c] = "rt_select"
  /\ \/ /\ ctxErr # Nil
        /\ pc' = [pc EXCEPT ![c] = "returned"]
        /\ res' = [res EXCEPT ![c] = Result(@.val, ctxErr, FALSE)]
     \/ /\ retryst[c].wake <= 0
        /\ pc' = [pc EXCEPT ![c] = EntryPc]
        /\ UNCHANGED res
     \/ /\ ctxErr = Nil /\ retryst[c].wake > 0
        /\ pc' = [pc EXCEPT ![c] = "rt_parked"]
        /\ UNCHANGED res
  /\ UNCHANGED <<policy, prov, seen, ctxErr, ncalls, breaker, retryst, gen, guard, orph, hist>>

\* The timer fires while the loop is parked: the next attempt starts.
TimerFire(c) ==
  /\ pc[c] = "rt_parked"
  /\ retryst[c].wake <= 0
  /\ pc' = [pc EXCEPT ![c] = EntryPc]
  /\ UNCHANGED <<policy, prov, seen, ctxErr, ncalls, breaker, res, retryst, gen, guard,
                 orph, hist>>

(* ------------------------------ circuit breaker ----------------------- *)
\* tripFn (circuitbreaker.go:33-35), gobreaker's ReadyToTrip
ReadyToTripStrict(b) == b.consecFail > policy.failures

ReadyToTrip(b) == b.consecFail >= policy.failures

\* gobreaker toNewGeneration: the counts are cleared and the expiry is set from
\* the state: closed -> now + Interval (none when Interval = 0), open -> now +
\* Timeout, half-open -> none.
ToNewGeneration(b) ==
  [b EXCEPT !.generation = @ + 1, !.requests = 0, !.totalFail = 0,
            !.consecSucc = 0, !.consecFail = 0,
            !.expires = (b.state = "open") \/ (b.state = "closed" /\ policy.interval > 0),
            !.left = IF b.state = "open" THEN policy.cbTimeout
                     ELSE IF b.state = "closed" THEN policy.interval ELSE 0]

SetState(b, st) ==
  IF b.state = st THEN b ELSE ToNewGeneration([b EXCEPT !.state = st])

\* gobreaker currentState(now): a closed breaker whose interval has passed starts
\* a new generation; an open breaker whose cool-down has passed becomes half-open.
CurrentStateNoCoolDown(b) ==
  IF b.state = "closed" /\ b.expires /\ b.left < 0 THEN ToNewGeneration(b)
  ELSE IF b.state = "open" THEN SetState(b, "half-open")
  ELSE b

CurrentState(b) ==
  IF b.state = "closed" /\ b.expires /\ b.left < 0 THEN ToNewGeneration(b)
  ELSE IF b.state = "open" /\ b.left < 0 THEN SetState(b, "half-open")
  ELSE b

\* gobreaker onSuccess / onFailure: closed counts; half-open closes after
\* MaxRequests consecutive successes and reopens on a failure.
OnSuccessKeepsFailures(b) ==
  LET n == [b EXCEPT !.consecSucc = @ + 1]
  IN IF b.state = "closed" THEN n
     ELSE IF b.state = "half-open"
       THEN IF n.consecSucc >= policy.maxRequests THEN SetState(n, "closed") ELSE n
     ELSE b

OnSuccessClosesAtOnce(b) ==
  LET n == [b EXCEPT !.consecSucc = @ + 1, !.consecFail = 0]
  IN IF b.state = "closed" THEN n
     ELSE IF b.state = "half-open" THEN SetState(n, "closed")
     ELSE b

OnSuccess(b) ==
  LET n == [b EXCEPT !.consecSucc = @ + 1, !.consecFail = 0]
  IN IF b.state = "closed" THEN n
     ELSE IF b.state = "half-open"
       THEN IF n.consecSucc >= policy.maxRequests THEN SetState(n, "closed") ELSE n
     ELSE b

OnFailureOverwritesCount(b) ==
  LET n == [b EXCEPT !.totalFail = @ + 1, !.consecFail = 1, !.consecSucc = 0]
  IN IF b.state = "closed"
       THEN IF ReadyToTrip(n) THEN SetState(n, "open") ELSE n
     ELSE IF b.state = "half-open" THEN SetState(b, "open")
     ELSE b

OnFailureKeepsProbing(b) ==
  LET n == [b EXCEPT !.totalFail = @ + 1, !.consecFail = @ + 1, !.consecSucc = 0]
  IN IF b.state = "closed"
       THEN IF ReadyToTrip(n) THEN SetState(n, "open") ELSE n
     ELSE IF b.state = "half-open" THEN n
     ELSE b

OnFailure(b) ==
  LET n == [b EXCEPT !.totalFail = @ + 1, !.consecFail = @ + 1, !.consecSucc = 0]
  IN IF b.state = "closed"
       THEN IF ReadyToTrip(n) THEN SetState(n, "open") ELSE n
     ELSE IF b.state = "half-open" THEN SetState(b, "open")
     ELSE b

\* gobreaker afterRequest(before, success), under the breaker's mutex
AfterRequestStateAlwaysSuccess(b, before, success) ==
  LET cur == CurrentState(b)
  IN IF cur.generation # before THEN cur ELSE OnSuccess(cur)

AfterRequestState(b, before, success) ==
  LET cur == CurrentState(b)
  IN IF cur.generation # before THEN cur
     ELSE IF success THEN OnSuccess(cur) ELSE OnFailure(cur)

\* gobreaker beforeRequest: a half-open breaker that has let MaxRequests
\* requests in rejects the next one.
TooManyRequestsOffByOne(b) == b.state = "half-open" /\ b.requests > policy.maxRequests

TooManyRequests(b) == b.state = "half-open" /\ b.requests >= policy.maxRequests

\* History kept at a breaker step that finds the breaker in state b and, after
\* currentState, in cur.
SeenAt(b, cur) ==
  LET entered == cur.state = "half-open" /\ b.state # "half-open"
  IN [seen EXCEPT !.probes = IF entered THEN 0 ELSE @,
                  !.probeOk = IF entered THEN 0 ELSE @,
                  !.win = IF cur.generation # b.generation THEN 0 ELSE @]

\* withCircuitBreaker (policy.go:93-105), first half of breaker.Execute:
\* beforeRequest, under the breaker's mutex.  An open breaker rejects with
\* ErrOpenState, a half-open one that has admitted MaxRequests calls with
\* ErrTooManyRequests; otherwise the request is counted and the guarded
\* operation is entered.
BeforeRequest(c) ==
  /\ pc[c] = "cb_before"
  /\ LET cur == CurrentState(breaker)
         s0 == SeenAt(breaker, cur)
     IN IF cur.state = "open"
          THEN /\ breaker' = cur
               /\ res' = [res EXCEPT ![c] = MarkPermanent(Nil, ErrOpenState)]
               /\ pc' = [pc EXCEPT ![c] = "attempt_done"]
               /\ hist' = [hist EXCEPT ![c].rejected = ErrOpenState]
               /\ seen' = [s0 EXCEPT !.lastCall = "rejected"]
               /\ UNCHANGED gen
        ELSE IF TooManyRequests(cur)
          THEN /\ breaker' = cur
               /\ res' = [res EXCEPT ![c] = MarkPermanent(Nil, ErrTooManyRequests)]
               /\ pc' = [pc EXCEPT ![c] = "attempt_done"]
               /\ hist' = [hist EXCEPT ![c].rejected = ErrTooManyRequests]
               /\ seen' = [s0 EXCEPT !.lastCall = "rejected"]
               /\ UNCHANGED gen
        ELSE /\ breaker' = [cur EXCEPT !.requests = @ + 1]
             /\ gen' = [gen EXCEPT ![c] = cur.generation]
             /\ pc' = [pc EXCEPT ![c] = InnerPc]
             /\ seen' = [s0 EXCEPT !.probes = @ + 1]
             /\ UNCHANGED <<res, hist>>
  /\ UNCHANGED <<policy, prov, ctxErr, ncalls, retryst, guard, orph>>

\* Second half of breaker.Execute: afterRequest records the outcome of the
\* guarded operation, and withCircuitBreaker returns its result.
AfterRequest(c) ==
  /\ pc[c] = "cb_after"
  /\ breaker' = AfterRequestState(breaker, gen[c], res[c].err = Nil)
  /\ res' = [res EXCEPT ![c] = MarkPermanent(@.val, @.err)]
  /\ pc' = [pc EXCEPT ![c] = "attempt_done"]
  /\ LET cur == CurrentState(breaker)
         s0 == SeenAt(breaker, cur)
         ok == res[c].err = Nil
         counted == cur.generation = gen[c]
         probe == counted /\ cur.state = "half-open"
     IN seen' = [s0 EXCEPT
          !.streak = IF ok THEN 0 ELSE @ + 1,
          !.tstreak = IF res[c].err = DeadlineExceeded THEN @ + 1 ELSE 0,
          !.win = IF ~counted THEN @ ELSE IF ok THEN 0 ELSE @ + 1,
          !.probeOk = IF ~probe THEN @ ELSE IF ok THEN @ + 1 ELSE 0,
          !.lastCall = IF probe THEN (IF ok THEN "probe_ok" ELSE "probe_fail")
                       ELSE IF ok THEN "ok" ELSE "fail"]
  /\ UNCHANGED <<policy, prov, ctxErr, ncalls, retryst, gen, guard, orph, hist>>

\* The executor built from the Policy c got from the provider is called.
SharedCall(c) ==
  /\ prov.pol[c].target # ""
  /\ Call(c)

\* withCircuitBreaker on the breaker c's Policy points to: beforeRequest ...
SharedBeforeRequest(c) ==
  /\ pc[c] = "cb_before"
  /\ LET ref == prov.pol[c].cb
         cur == CurrentState(prov.cbs[ref])
     IN IF cur.state = "open"
          THEN /\ prov' = [prov EXCEPT !.cbs[ref] = cur]
               /\ res' = [res EXCEPT ![c] = MarkPermanent(Nil, ErrOpenState)]
               /\ pc' = [pc EXCEPT ![c] = "attempt_done"]
               /\ hist' = [hist EXCEPT ![c].rejected = ErrOpenState]
               /\ UNCHANGED gen
        ELSE IF TooManyRequests(cur)
          THEN /\ prov' = [prov EXCEPT !.cbs[ref] = cur]
               /\ res' = [res EXCEPT ![c] = MarkPermanent(Nil, ErrTooManyRequests)]
               /\ pc' = [pc EXCEPT ![c] = "attempt_done"]
               /\ hist' = [hist EXCEPT ![c].rejected = ErrTooManyRequests]
               /\ UNCHANGED gen
        ELSE /\ prov' = [prov EXCEPT !.cbs[ref] = [cur EXCEPT !.requests = @ + 1]]
             /\ gen' = [gen EXCEPT ![c] = cur.generation]
             /\ pc' = [pc EXCEPT ![c] = InnerPc]
             /\ UNCHANGED <<res, hist>>
  /\ UNCHANGED <<policy, ctxErr, ncalls, breaker, retryst, guard, orph, seen>>

\* ... and afterRequest.  The name the target of c's Policy selects is noted
\* when the recorded failure opens the breaker.
SharedAfterRequest(c) ==
  /\ pc[c] = "cb_after"
  /\ LET ref == prov.pol[c].cb
         name == prov.cfg.Targets[prov.pol[c].target].circuitBreaker
         b == prov.cbs[ref]
         after == AfterRequestState(b, gen[c], res[c].err = Nil)
     IN prov' = [prov EXCEPT
          !.cbs[ref] = after,
          !.trip[name] = IF after.state = "open" /\ b.state # "open"
                           THEN [by |-> c, age |-> 0] ELSE @]
  /\ res' = [res EXCEPT ![c] = MarkPermanent(@.val, @.err)]
  /\ pc' = [pc EXCEPT ![c] = "attempt_done"]
  /\ UNCHANGED <<policy, ctxErr, ncalls, breaker, retryst, gen, guard, orph, hist,
                 seen>>

(* ------------------------------ timeout guard ------------------------- *)
\* policy.go:85-86 and 87-88: what the waiter returns from either case.
RecvResultDropsValue(r) == Result(Nil, r.err, FALSE)

DoneResultNoError(err) == Result(Nil, Nil, FALSE)

RecvResult(r) == Result(r.val, r.err, FALSE)
DoneResult(err) == Result(Nil, err, FALSE)

\* A goroutine whose waiter has returned keeps running on its own (one that is
\* recovering from a panic has its one non-blocking step left, like one that
\* is about to deliver).
AbandonEndsGoroutine(o, gpc) == o

Abandon(o, gpc) ==
  IF gpc \in {"ready", "running", "deliver"} THEN [o EXCEPT !["cur"][gpc] = @ + 1]
  ELSE IF gpc = "recover" THEN [o EXCEPT !["cur"]["deliver"] = @ + 1]
  ELSE o

\* The waiter returns r (its deferred cancel() ends timeoutCtx); gpc is where
\* the goroutine of this attempt is left.
WaiterReturns(c, r, gpc) ==
  /\ pc' = [pc EXCEPT ![c] = AfterInnerPc]
  /\ res' = [res EXCEPT ![c] = r]
  /\ guard' = [guard EXCEPT ![c] = InitGuard]
  /\ orph' = [orph EXCEPT ![c] = Abandon(@, gpc)]

\* withTimeout (policy.go:56-63): timeoutCtx is derived from the ambient context
\* (and is done at once when that one is), resultCh is made, the goroutine is
\* started.
TimeoutEnter(c) ==
  /\ pc[c] = "to_enter"
  /\ guard' = [guard EXCEPT ![c] =
       [InitGuard EXCEPT !.deadline = policy.timeout, !.err = ctxErr, !.gpc = "ready"]]
  /\ pc' = [pc EXCEPT ![c] = "to_select"]
  /\ hist' = [hist EXCEPT ![c].tries = @ + 1]
  /\ UNCHANGED <<policy, prov, seen, ctxErr, ncalls, breaker, res, retryst, gen, orph>>

\* policy.go:74: the goroutine invokes the operation with timeoutCtx ...
GoStart(c) ==
  /\ guard[c].gpc = "ready"
  /\ guard' = [guard EXCEPT ![c].gpc = "running"]
  /\ hist' = [hist EXCEPT ![c].invoked = @ + 1]
  /\ UNCHANGED <<policy, prov, seen, ctxErr, ncalls, breaker, pc, res, retryst, gen, orph>>

\* ... which returns.
GoOpReturn(c) ==
  /\ guard[c].gpc = "running"
  /\ \E o \in OpOutcomes :
       /\ guard' = [guard EXCEPT ![c].gpc = "deliver", ![c].gres = o]
       /\ hist' = [hist EXCEPT ![c] =
            [Record(@, o) EXCEPT !.opFirst = (guard[c].err = Nil)]]
  /\ UNCHANGED <<policy, prov, seen, ctxErr, ncalls, breaker, pc, res, retryst, gen, orph>>

\* policy.go:76-80: the goroutine's select.  The send can always proceed (one
\* slot, one sender): into the slot, or straight to a parked waiter.  With
\* timeoutCtx done, the Done case can be taken instead and the result is dropped.
GoDeliverBlockingSend(c) ==
  /\ guard[c].gpc = "deliver"
  /\ pc[c] = "to_parked"
  /\ WaiterReturns(c, RecvResult(guard[c].gres), "exited")
  /\ UNCHANGED <<policy, prov, seen, ctxErr, ncalls, breaker, retryst, gen, hist>>

GoDeliver(c) ==
  /\ guard[c].gpc = "deliver"
  /\ \/ /\ pc[c] = "to_parked"
        /\ WaiterReturns(c, RecvResult(guard[c].gres), "exited")
     \/ /\ pc[c] # "to_parked"
        /\ guard' = [guard EXCEPT ![c].gpc = "exited", ![c].full = TRUE,
                                  ![c].ch = guard[c].gres]
        /\ UNCHANGED <<pc, res, orph>>
     \/ /\ guard[c].err # Nil
        /\ guard' = [guard EXCEPT ![c].gpc = "exited"]
        /\ UNCHANGED <<pc, res, orph>>
  /\ UNCHANGED <<policy, prov, seen, ctxErr, ncalls, breaker, retryst, gen, hist>>

\* policy.go:68: what the deferred function puts on resultCh after a panic
PanicResultNoError == NoResult

PanicResult == [val |-> Nil, err |-> ErrPanicked]

\* policy.go:74: ... or which panics: the deferred function runs (policy.go:64).
GoPanic(c) ==
  /\ guard[c].gpc = "running"
  /\ guard' = [guard EXCEPT ![c].gpc = "recover"]
  /\ hist' = [hist EXCEPT ![c].panicked = TRUE]
  /\ UNCHANGED <<policy, prov, seen, ctxErr, ncalls, breaker, pc, res, retryst, gen, orph>>

\* policy.go:65-71: recover, then a send with a default case.  Nothing else
\* sends on resultCh (the panic skipped line 76), so its slot is free and the
\* send, never the default case, is taken: straight to a parked waiter, or
\* into the slot.  The goroutine ends.
GoRecover(c) ==
  /\ guard[c].gpc = "recover"
  /\ \/ /\ pc[c] = "to_parked"
        /\ WaiterReturns(c, RecvResult(PanicResult), "exited")
     \/ /\ pc[c] # "to_parked"
        /\ guard' = [guard EXCEPT ![c].gpc = "exited", ![c].full = TRUE,
                                  ![c].ch = PanicResult]
        /\ UNCHANGED <<pc, res, orph>>
  /\ UNCHANGED <<policy, prov, seen, ctxErr, ncalls, breaker, retryst, gen, hist>>

\* policy.go:84-89: the waiter reaches its select.  A ready case is taken (any
\* of them when both are ready); with none ready the waiter parks.
WaiterSelect(c) ==
  /\ pc[c] = "to_select"
  /\ \/ /\ guard[c].full
        /\ WaiterReturns(c, RecvResult(guard[c].ch), guard[c].gpc)
     \/ /\ guard[c].err # Nil
        /\ WaiterReturns(c, DoneResult(guard[c].err), guard[c].gpc)
     \/ /\ ~guard[c].full /\ guard[c].err = Nil
        /\ pc' = [pc EXCEPT ![c] = "to_parked"]
        /\ UNCHANGED <<res, guard, orph>>
  /\ UNCHANGED <<policy, prov, seen, ctxErr, ncalls, breaker, retryst, gen, hist>>

\* The deadline of timeoutCtx is reached (context.WithTimeout, policy.go:58): the
\* context is done with DeadlineExceeded, and a waiter parked in the select
\* wakes up with the Done case.
DeadlineFire(c) ==
  /\ guard[c].gpc # "none"
  /\ guard[c].err = Nil
  /\ guard[c].deadline <= 0
  /\ hist' = [hist EXCEPT
       ![c].dl = IF guard[c].gpc \in {"ready", "running"}
                   THEN (IF pc[c] = "to_parked" THEN "parked" ELSE "late")
                 ELSE "after",
       ![c].slow = IF guard[c].gpc \in {"ready", "running"} THEN @ + 1 ELSE @]
  /\ IF pc[c] = "to_parked"
       THEN WaiterReturns(c, DoneResult(DeadlineExceeded), guard[c].gpc)
     ELSE /\ guard' = [guard EXCEPT ![c].err = DeadlineExceeded]
          /\ UNCHANGED <<pc, res, orph>>
  /\ UNCHANGED <<policy, prov, seen, ctxErr, ncalls, breaker, retryst, gen>>

\* The goroutines left behind: the operation is started, returns, and the
\* goroutine's select (the slot is free, timeoutCtx is done) lets it exit.
OrphStart(c) ==
  /\ \E t \in {"cur", "old"} :
       /\ orph[c][t].ready > 0
       /\ orph' = [orph EXCEPT ![c][t].ready = @ - 1, ![c][t].running = @ + 1]
       /\ hist' = [hist EXCEPT ![c].invoked = IF t = "cur" THEN @ + 1 ELSE @]
  /\ UNCHANGED <<policy, prov, seen, ctxErr, ncalls, breaker, pc, res, retryst, gen, guard>>

OrphReturn(c) ==
  /\ \E t \in {"cur", "old"} :
       /\ orph[c][t].running > 0
       /\ orph' = [orph EXCEPT ![c][t].running = @ - 1, ![c][t].deliver = @ + 1]
  /\ UNCHANGED <<policy, prov, seen, ctxErr, ncalls, breaker, pc, res, retryst, gen, guard,
                 hist>>

OrphExit(c) ==
  /\ \E t \in {"cur", "old"} :
       /\ orph[c][t].deliver > 0
       /\ orph' = [orph EXCEPT ![c][t].deliver = @ - 1]
  /\ UNCHANGED <<policy, prov, seen, ctxErr, ncalls, breaker, pc, res, retryst, gen, guard,
                 hist>>

(* ------------------------------ environment --------------------------- *)
Elapse(left) == IF left > 0 THEN left - 1 ELSE left

\* One tick passes.  The breaker's expiry is compared with Before(now), so it
\* counts down to -1; timers and context deadlines are due at 0.
Tick ==
  /\ retryst' = [c \in Callers |-> [retryst[c] EXCEPT !.wake = Elapse(@)]]
  /\ guard' = [c \in Callers |-> [guard[c] EXCEPT !.deadline = Elapse(@)]]
  /\ breaker' = [breaker EXCEPT !.left = IF breaker.expires /\ @ >= 0 THEN @ - 1 ELSE @]
  /\ UNCHANGED <<policy, prov, seen, ctxErr, ncalls, pc, res, gen, orph, hist>>

\* One tick passes for the breakers of the provider.
TickShared ==
  /\ prov.cbs # <<>>
  /\ prov' = [prov EXCEPT
       !.cbs = [r \in DOMAIN prov.cbs |->
                  [prov.cbs[r] EXCEPT !.left = IF prov.cbs[r].expires /\ @ >= 0
                                                THEN @ - 1 ELSE @]],
       !.trip = [n \in GuardNames |->
                  [prov.trip[n] EXCEPT !.age = IF @ >= 0 /\ @ <= MaxCbTimeout
                                                THEN @ + 1 ELSE @]]]
  /\ UNCHANGED <<policy, ctxErr, ncalls, breaker, pc, res, retryst, gen, guard,
                 orph, hist, seen>>

\* The ambient context ends (cancelled, or its own deadline expires).  Goroutines
\* parked on its Done channel, or on that of a timeout context derived from it,
\* wake up with that case.
CtxDone ==
  /\ ctxErr = Nil
  /\ \E e \in {Canceled, DeadlineExceeded} :
       /\ ctxErr' = e
       /\ pc' = [c \in Callers |->
            IF pc[c] = "rt_parked" THEN "returned"
            ELSE IF pc[c] = "to_parked" THEN AfterInnerPc
            ELSE pc[c]]
       /\ res' = [c \in Callers |->
            IF pc[c] = "rt_parked" THEN Result(res[c].val, e, FALSE)
            ELSE IF pc[c] = "to_parked" THEN DoneResult(e)
            ELSE res[c]]
       /\ guard' = [c \in Callers |->
            IF pc[c] = "to_parked" THEN InitGuard
            ELSE IF guard[c].gpc # "none" /\ guard[c].err = Nil
              THEN [guard[c] EXCEPT !.err = e]
            ELSE guard[c]]
       /\ orph' = [c \in Callers |->
            IF pc[c] = "to_parked" THEN Abandon(orph[c], guard[c].gpc) ELSE orph[c]]
  /\ UNCHANGED <<policy, prov, seen, ncalls, breaker, retryst, gen, hist>>

(* ------------------------------ specifications ------------------------ *)
\* Retry-only policies: Policy{retry: r}.
InitRetry == InitWith(RetryOnlyPolicies, MaxRetryCalls)

NextRetry ==
  \/ Tick
  \/ CtxDone
  \/ \E c \in Callers :
       \/ Call(c)
       \/ OpCall(c)
       \/ OpReturn(c)
       \/ RetryCheck(c)
       \/ RetrySelect(c)
       \/ TimerFire(c)

SpecRetry == InitRetry /\ [][NextRetry]_vars

\* Breaker-only policies: Policy{circuitBreaker: cb}, callers running
\* concurrently through the shared breaker.
InitBreakerOnly == InitWith(BreakerOnlyPolicies, MaxCalls)

NextBreaker ==
  \/ Tick
  \/ \E c \in Callers :
       \/ Call(c)
       \/ BeforeRequest(c)
       \/ OpCall(c)
       \/ OpReturn(c)
       \/ AfterRequest(c)
       \/ Return(c)

SpecBreaker == InitBreakerOnly /\ [][NextBreaker]_vars

\* The same, one call after the other.
NextBreakerSeq ==
  \/ Tick
  \/ \E c \in {1} :
       \/ Call(c)
       \/ BeforeRequest(c)
       \/ OpCall(c)
       \/ OpReturn(c)
       \/ AfterRequest(c)
       \/ Return(c)

SpecBreakerSeq == InitBreakerOnly /\ [][NextBreakerSeq]_vars

\* Longer runs of concurrent callers through a breaker of threshold >= 2.
InitBreakerRuns == InitWith(ThresholdPolicies, MaxLongCalls)

SpecBreakerRuns == InitBreakerRuns /\ [][NextBreaker]_vars

\* Timeout-only policies: Policy{timeout: d}.
InitTimeout == InitWith(TimeoutOnlyPolicies, MaxGuardCalls)

NextTimeout ==
  \/ Tick
  \/ CtxDone
  \/ \E c \in Callers :
       \/ Call(c)
       \/ TimeoutEnter(c)
       \/ GoStart(c)
       \/ GoOpReturn(c)
       \/ GoDeliver(c)
       \/ WaiterSelect(c)
       \/ DeadlineFire(c)
       \/ OrphStart(c)
       \/ OrphReturn(c)
       \/ OrphExit(c)
       \/ Return(c)

SpecTimeout == InitTimeout /\ [][NextTimeout]_vars

\* Retry around a breaker: Policy{retry: r, circuitBreaker: cb}, callers running
\* concurrently.
InitRetryBreaker == InitWith(RetryBreakerPolicies, MaxNestedCalls)

NextRetryBreaker ==
  \/ Tick
  \/ CtxDone
  \/ \E c \in Callers :
       \/ Call(c)
       \/ BeforeRequest(c)
       \/ OpCall(c)
       \/ OpReturn(c)
       \/ AfterRequest(c)
       \/ RetryCheck(c)
       \/ RetrySelect(c)
       \/ TimerFire(c)

SpecRetryBreaker == InitRetryBreaker /\ [][NextRetryBreaker]_vars

\* Retry around a breaker, one caller, starting from the breaker as made.
InitNested == InitWith(NestedPolicies, MaxLoopCalls)

NextNested ==
  \/ Tick
  \/ CtxDone
  \/ \E c \in {1} :
       \/ Call(c)
       \/ BeforeRequest(c)
       \/ OpCall(c)
       \/ OpReturn(c)
       \/ AfterRequest(c)
       \/ RetryCheck(c)
       \/ RetrySelect(c)
       \/ TimerFire(c)

SpecNested == InitNested /\ [][NextNested]_vars

\* Retry around the timeout guard (and a breaker), one caller.
InitRetryGuard == InitWith(RetryGuardPolicies, MaxLoopCalls)

NextRetryGuard ==
  \/ Tick
  \/ CtxDone
  \/ \E c \in {1} :
       \/ Call(c)
       \/ BeforeRequest(c)
       \/ AfterRequest(c)
       \/ OpCall(c)
       \/ OpReturn(c)
       \/ TimeoutEnter(c)
       \/ GoStart(c)
       \/ GoOpReturn(c)
       \/ GoDeliver(c)
       \/ WaiterSelect(c)
       \/ DeadlineFire(c)
       \/ OrphStart(c)
       \/ OrphReturn(c)
       \/ OrphExit(c)
       \/ RetryCheck(c)
       \/ RetrySelect(c)
       \/ TimerFire(c)

SpecRetryGuard == InitRetryGuard /\ [][NextRetryGuard]_vars

\* Breaker around the timeout guard: Policy{timeout: to, circuitBreaker: cb},
\* one call after the other.
InitGuardBreaker == InitWith(GuardBreakerPolicies, MaxGuardCalls)

NextGuardBreaker ==
  \/ Tick
  \/ CtxDone
  \/ \E c \in {1} :
       \/ Call(c)
       \/ BeforeRequest(c)
       \/ TimeoutEnter(c)
       \/ GoStart(c)
       \/ GoOpReturn(c)
       \/ GoDeliver(c)
       \/ WaiterSelect(c)
       \/ DeadlineFire(c)
       \/ OrphStart(c)
       \/ OrphReturn(c)
       \/ OrphExit(c)
       \/ AfterRequest(c)
       \/ Return(c)

SpecGuardBreaker == InitGuardBreaker /\ [][NextGuardBreaker]_vars

\* No guard: the executor of a nil policy, an empty policy or the policy of an
\* unknown target, callers running concurrently.
InitUnguarded == InitWith(UnguardedPolicies, MaxCalls)

NextUnguarded ==
  \/ CtxDone
  \/ \E c \in Callers :
       \/ Call(c)
       \/ OpCall(c)
       \/ OpReturn(c)
       \/ Return(c)

SpecUnguarded == InitUnguarded /\ [][NextUnguarded]_vars

\* Timeout-only policies with operations that may panic.
NextTimeoutPanic ==
  \/ NextTimeout
  \/ \E c \in Callers :
       \/ GoPanic(c)
       \/ GoRecover(c)

SpecTimeoutPanic == InitTimeout /\ [][NextTimeoutPanic]_vars

\* The same with the Go scheduler running every goroutine that can take a
\* step: a goroutine at its delivery step is eventually run.
SpecTimeoutPanicFair ==
  /\ SpecTimeoutPanic
  /\ \A c \in Callers :
       /\ WF_vars(GoDeliver(c))
       /\ WF_vars(GoRecover(c))
       /\ WF_vars(OrphExit(c))

\* IsErrorPermanent on its own.
InitClassify == InitWith({EmptyPolicy}, MaxGuardCalls)

NextClassify == \E c \in Callers : Classify(c)

SpecClassify == InitClassify /\ [][NextClassify]_vars

\* Retry-only policies with operations that fail with errors of every kind, one
\* caller.
InitRetryErrors == InitWith(RetryOnlyPolicies, MaxRetryCalls)

NextRetryErrors ==
  \/ Tick
  \/ CtxDone
  \/ \E c \in {1} :
       \/ Call(c)
       \/ OpCall(c)
       \/ OpReturnAny(c)
       \/ RetryCheck(c)
       \/ RetrySelect(c)
       \/ TimerFire(c)

SpecRetryErrors == InitRetryErrors /\ [][NextRetryErrors]_vars

\* A provider is built from a Config and asked for policies.
InitFromConfig ==
  /\ InitState({EmptyPolicy}, MaxGuardCalls)
  /\ prov \in { [NoProvider EXCEPT !.cfg = cfg] : cfg \in Configs }

NextFromConfig ==
  \/ FromConfig
  \/ \E c \in Callers : GetPolicy(c)

SpecFromConfig == InitFromConfig /\ [][NextFromConfig]_vars

\* Targets "a" and "b" each select one of two breakers with the same settings;
\* callers get their policies from the provider and call the executors built
\* from them concurrently.
SharedConfigs ==
  [Timeouts : {<<>>}, Retries : {<<>>},
   CircuitBreakers :
     { [n \in GuardNames |-> [MaxRequests |-> 1, Interval |-> <<>>,
                              Timeout |-> <<"1">>, Failures |-> f]] :
         f \in 1..MaxFailures },
   Targets : [TargetNames -> [timeout : {""}, retry : {""}, circuitBreaker : GuardNames]]]

InitShared ==
  \E cfg \in SharedConfigs :
    /\ InitState({ProviderPolicy(Configured(cfg), "a")}, MaxSharedCalls)
    /\ prov = [NoProvider EXCEPT !.cfg = cfg]

NextShared ==
  \/ FromConfig
  \/ TickShared
  \/ \E c \in Callers :
       \/ GetPolicy(c)
       \/ SharedCall(c)
       \/ SharedBeforeRequest(c)
       \/ OpCall(c)
       \/ OpReturn(c)
       \/ SharedAfterRequest(c)
       \/ Return(c)

SpecShared == InitShared /\ [][NextShared]_vars

(* ------------------------------ claims: retry ------------------------- *)
\* C1: retry-only, maxRetries = N >= 0, ambient context never cancelled: a call
\* whose operation failed on every invocation has invoked it exactly N+1 times
\* and returns the error of the last invocation.
C1_AlwaysFailingInvokedNPlus1 ==
  \A c \in Callers :
    (/\ pc[c] = "returned"
     /\ policy.maxRetries >= 0
     /\ ctxErr = Nil
     /\ hist[c].nfail = hist[c].invoked)
    => /\ hist[c].invoked = policy.maxRetries + 1
       /\ res[c].err = hist[c].last.err
       /\ res[c].err \in OpErrors

C1_Witness ==
  \E c \in Callers :
    /\ pc[c] = "returned" /\ ctxErr = Nil
    /\ policy.maxRetries = MaxRetriesBound
    /\ hist[c].nfail = MaxRetriesBound + 1
    /\ hist[c].invoked = MaxRetriesBound + 1
    /\ res[c].err = "e2"

\* C2: retry-only, maxRetries = N >= 0: when the k-th invocation is the first to
\* succeed (the k-1 before it failed), k <= N+1, no invocation follows it, and
\* the call returns that invocation's value with a nil error.
C2_FirstSuccessEndsTheLoop ==
  \A c \in Callers :
    (policy.maxRetries >= 0 /\ hist[c].nsucc > 0)
    => /\ hist[c].nsucc = 1
       /\ hist[c].invoked = hist[c].nfail + 1
       /\ hist[c].invoked <= policy.maxRetries + 1
       /\ pc[c] \in {"attempt_done", "returned"}
       /\ pc[c] = "returned" => res[c] = Result(hist[c].last.val, Nil, FALSE)

C2_Witness ==
  \E c \in Callers :
    /\ pc[c] = "returned"
    /\ policy.maxRetries = MaxRetriesBound
    /\ hist[c].nsucc = 1
    /\ hist[c].nfail = MaxRetriesBound
    /\ res[c] = Result("v1", Nil, FALSE)

\* C4: retry around a breaker: once an attempt has been rejected by the breaker
\* (ErrOpenState or ErrTooManyRequests) the retry loop neither waits nor starts
\* another attempt, whatever number of retries remains, and the call returns
\* that rejection error.
C4_RejectionEndsTheLoop ==
  /\ [](\A c \in Callers :
          hist[c].rejected # Nil
          => /\ pc[c] \in {"attempt_done", "returned"}
             /\ res[c].val = Nil /\ res[c].err = hist[c].rejected
             /\ hist[c].rejected \in {ErrOpenState, ErrTooManyRequests})
  /\ [][\A c \in Callers :
          (pc[c] = "attempt_done" /\ hist[c].rejected # Nil /\ pc'[c] # pc[c])
          => /\ pc'[c] = "returned"
             /\ res'[c] = Result(Nil, hist[c].rejected, FALSE)
             /\ retryst'[c] = retryst[c]]_vars

C4_Witness ==
  \E c \in Callers :
    /\ pc[c] = "returned"
    /\ hist[c].rejected = ErrTooManyRequests
    /\ res[c] = Result(Nil, ErrTooManyRequests, FALSE)
    /\ policy.maxRetries = MaxRetriesBound
    /\ retryst[c].numTries = 0
    /\ hist[c].invoked = 0
    /\ ctxErr = Nil

(* ------------------------------ claims: breaker ----------------------- *)
\* A call reaches the breaker's gate / leaves the guarded operation.
Gate(c) == pc[c] = "cb_before" /\ pc'[c] # "cb_before"
Recorded(c) == pc[c] = "cb_after" /\ pc'[c] = "attempt_done"
Rejected(c, err) ==
  /\ pc'[c] = "attempt_done"
  /\ res'[c].val = Nil /\ res'[c].err = err
  /\ hist'[c].invoked = hist[c].invoked
Admitted(c) == pc'[c] = "op_call" /\ res'[c] = res[c]

\* C3 as stated: breaker-only, threshold F >= 1, calls made one after the other:
\* when the F-th failed call in a row completes the breaker is open, and a call
\* made then, before the cool-down has elapsed, is rejected with ErrOpenState
\* and its operation is not invoked.
C3_Original ==
  [][\A c \in Callers :
       /\ (Recorded(c) /\ res[c].err # Nil /\ seen'.streak >= policy.failures)
            => breaker'.state = "open"
       /\ (Gate(c) /\ seen.streak >= policy.failures /\ breaker.state = "open"
             /\ breaker.left >= 0)
            => Rejected(c, ErrOpenState)]_vars

\* C3 amended: the same for F failed calls in a row between which the counter
\* interval has not expired (an expired interval clears the count of
\* consecutive failures when the next call is made).
C3_TripsWithinInterval ==
  [][\A c \in Callers :
       /\ (Recorded(c) /\ res[c].err # Nil /\ seen'.win >= policy.failures)
            => breaker'.state = "open"
       /\ (Gate(c) /\ seen.win >= policy.failures /\ breaker.left >= 0)
            => Rejected(c, ErrOpenState)]_vars

C3_Witness ==
  \E c \in Callers :
    /\ policy.failures = MaxFailures
    /\ seen.win = MaxFailures
    /\ breaker.state = "open" /\ breaker.left >= 0
    /\ pc[c] = "returned" /\ res[c].err = ErrOpenState
    /\ hist[c].invoked = 0

\* C5 as stated: calls made one after the other: a probe call that succeeds
\* closes the breaker, for every MaxRequests >= 1, and the call after it is
\* admitted.
C5_Original ==
  [][\A c \in Callers :
       /\ (Recorded(c) /\ breaker.state = "half-open" /\ res[c].err = Nil)
            => breaker'.state = "closed"
       /\ (Gate(c) /\ seen.lastCall = "probe_ok") => Admitted(c)]_vars

\* C5 amended: a successful probe closes the breaker once MaxRequests probes
\* have succeeded in a row since it became half-open (the first one does only
\* when MaxRequests = 1); until then the breaker stays half-open.  The call
\* after a successful probe is admitted either way.
C5_ClosesAfterMaxRequestsProbes ==
  [][\A c \in Callers :
       /\ (Recorded(c) /\ breaker.state = "half-open" /\ res[c].err = Nil)
            => breaker'.state =
                 IF seen'.probeOk >= policy.maxRequests THEN "closed" ELSE "half-open"
       /\ (Gate(c) /\ seen.lastCall = "probe_ok") => Admitted(c)]_vars

C5_Witness ==
  /\ policy.maxRequests = MaxMaxRequests
  /\ seen.lastCall = "probe_ok"
  /\ seen.probeOk = MaxMaxRequests
  /\ breaker.state = "closed"
  /\ \E c \in Callers : pc[c] = "op_running"

\* C6: calls made one after the other: a probe call that fails puts the breaker
\* back into open with a new cool-down, and the next call, made before that
\* cool-down has elapsed, is rejected with ErrOpenState without invoking the
\* operation.
C6_FailedProbeReopens ==
  [][\A c \in Callers :
       /\ (Recorded(c) /\ breaker.state = "half-open" /\ res[c].err # Nil)
            => /\ breaker'.state = "open"
               /\ breaker'.expires /\ breaker'.left = policy.cbTimeout
       /\ (Gate(c) /\ seen.lastCall = "probe_fail" /\ breaker.left >= 0)
            => Rejected(c, ErrOpenState)]_vars

C6_Witness ==
  \E c \in Callers :
    /\ seen.lastCall = "rejected" /\ seen.probes = 1 /\ seen.streak > policy.failures
    /\ breaker.state = "open" /\ breaker.left >= 0
    /\ pc[c] = "returned" /\ res[c].err = ErrOpenState

\* C7: callers running concurrently: while the breaker is half-open at most
\* MaxRequests calls have been admitted since it became half-open, and a call
\* that reaches a half-open breaker is rejected with ErrTooManyRequests, its
\* operation not invoked, exactly when MaxRequests calls have been admitted.
C7_HalfOpenAdmitsAtMostMaxRequests ==
  /\ [](breaker.state = "half-open" => seen.probes <= policy.maxRequests)
  /\ [][\A c \in Callers :
          (Gate(c) /\ breaker'.state = "half-open")
            => IF SeenAt(breaker, breaker').probes >= policy.maxRequests
                 THEN Rejected(c, ErrTooManyRequests)
                 ELSE Admitted(c)]_vars

C7_Witness ==
  \E c \in Callers :
    /\ policy.maxRequests = MaxMaxRequests
    /\ breaker.state = "half-open"
    /\ seen.probes = MaxMaxRequests
    /\ pc[c] = "returned" /\ res[c].err = ErrTooManyRequests
    /\ hist[c].invoked = 0

C9_Original ==
  \A c \in Callers :
    (pc[c] = "returned" /\ hist[c].opFirst /\ ctxErr = Nil)
    => res[c] = Result(hist[c].last.val, hist[c].last.err, FALSE)

\* C9 amended: the same when the deadline does not elapse before the waiter has
\* taken the operation's result; when it elapses after the operation completed
\* and before the waiter has returned, the call returns the operation's value
\* and error or the deadline-exceeded error.
C9_ResultUnlessDeadlineFires ==
  \A c \in Callers :
    (pc[c] = "returned" /\ hist[c].opFirst /\ ctxErr = Nil)
    => \/ res[c] = Result(hist[c].last.val, hist[c].last.err, FALSE)
       \/ hist[c].dl = "after" /\ res[c] = Result(Nil, DeadlineExceeded, FALSE)

C9_Witness ==
  \E c \in Callers :
    /\ pc[c] = "returned" /\ hist[c].opFirst /\ ctxErr = Nil
    /\ hist[c].dl = "no"
    /\ hist[c].last.val = "v1"
    /\ res[c] = Result("v1", Nil, FALSE)

(* ------------------------------ claims: ordering ---------------------- *)
\* Invocations of the operation started by the current call of c that are
\* executing: on the calling goroutine, on the guard's goroutine of the current
\* attempt, on goroutines the guard abandoned in earlier attempts.
Running(c) ==
  (IF pc[c] = "op_running" THEN 1 ELSE 0)
  + (IF guard[c].gpc = "running" THEN 1 ELSE 0)
  + orph[c]["cur"].running

\* C10 as stated: retry configured, with or without timeout and breaker: at most
\* one invocation of the operation started by one executor call is executing.
C10_Original ==
  \A c \in Callers : policy.retry => Running(c) <= 1

\* C10 amended: the same for policies without a timeout, where every invocation
\* started has returned before the next one starts.  (With a timeout the
\* operation of an attempt that timed out keeps running beside the next one.)
C10_SequentialWithoutTimeout ==
  \A c \in Callers :
    (policy.retry /\ policy.timeout = 0)
    => /\ Running(c) <= 1
       /\ hist[c].invoked - (hist[c].nfail + hist[c].nsucc) = Running(c)
       /\ guard[c].gpc = "none"

C10_Witness ==
  \E c \in Callers :
    /\ policy.retry /\ policy.timeout = 0 /\ policy.cb
    /\ pc[c] = "op_running"
    /\ hist[c].invoked = 2 /\ hist[c].nfail = 1
    /\ Running(c) = 1

(* ------------------------------ claims: cancellation ------------------ *)
\* C11: retry-only: when the ambient context is cancelled or expires while the
\* retry loop waits between two attempts (parked on its delay, or reaching the
\* wait with the delay still to run), the call returns the context's error at
\* once: the delay is not waited out and the operation is not invoked again,
\* whatever number of retries remains.
C11_CancelEndsTheWait ==
  [][\A c \in Callers :
       /\ (pc[c] = "rt_parked" /\ ctxErr = Nil /\ ctxErr' # Nil)
            => /\ pc'[c] = "returned"
               /\ res'[c].err = ctxErr'
               /\ hist'[c] = hist[c]
       /\ (pc[c] = "rt_select" /\ ctxErr # Nil /\ retryst[c].wake > 0
             /\ pc'[c] # pc[c])
            => /\ pc'[c] = "returned"
               /\ res'[c].err = ctxErr
               /\ hist'[c] = hist[c]]_vars

C11_Witness ==
  \E c \in Callers :
    /\ pc[c] = "returned"
    /\ res[c].err = Canceled
    /\ hist[c].last.err \in OpErrors
    /\ policy.maxRetries = MaxRetriesBound
    /\ hist[c].invoked = 1
    /\ retryst[c].numTries = 1 /\ retryst[c].wake > 0

\* C12: retry-only, maxRetries < 0: no attempt count ends the call.  After a
\* failed attempt with the ambient context live the loop goes on to its wait,
\* and a call that has returned has returned a success, or the context's error
\* with the context cancelled or expired.
C12_NegativeMaxRetriesNeverGivesUp ==
  /\ [](\A c \in Callers :
          (policy.maxRetries < 0 /\ pc[c] = "returned")
          => \/ hist[c].nsucc = 1 /\ res[c].err = Nil
             \/ ctxErr # Nil /\ res[c].err = ctxErr)
  /\ [][\A c \in Callers :
          (policy.maxRetries < 0 /\ pc[c] = "attempt_done" /\ res[c].err # Nil
            /\ ctxErr = Nil /\ pc'[c] # pc[c])
          => pc'[c] = "rt_select" /\ ctxErr' = Nil]_vars

C12_Witness ==
  \E c \in Callers :
    /\ policy.maxRetries < 0 /\ ctxErr = Nil
    /\ hist[c].invoked = MaxAttempts
    /\ hist[c].nfail = MaxAttempts - 1
    /\ pc[c] = "op_running"

(* ------------------------------ claims: composition ------------------- *)
\* C13 as stated: timeout and breaker, calls made one after the other: when the
\* F-th attempt in a row in which the guard returned the deadline error
\* completes, the breaker is open.
C13_Original ==
  [][\A c \in Callers :
       (Recorded(c) /\ res[c].err = DeadlineExceeded
         /\ seen'.tstreak >= policy.failures)
       => breaker'.state = "open"]_vars

\* C13 amended: an attempt in which the guard returned the deadline error is
\* counted by the breaker as a failure when the counter interval has not
\* expired since the attempt was admitted, and the F-th failure counted since
\* the counts were last cleared opens the breaker.
C13_TimeoutCountsAsFailure ==
  [][\A c \in Callers :
       /\ (Recorded(c) /\ res[c].err = DeadlineExceeded
             /\ CurrentState(breaker).generation = gen[c]
             /\ CurrentState(breaker).state = "closed")
            => \/ breaker'.state = "closed"
                  /\ breaker'.consecFail = breaker.consecFail + 1
                  /\ breaker'.consecFail < policy.failures
               \/ breaker'.state = "open"
                  /\ breaker.consecFail + 1 >= policy.failures
       /\ (Recorded(c) /\ res[c].err = DeadlineExceeded
             /\ seen'.win >= policy.failures)
            => breaker'.state = "open"]_vars

C13_Witness ==
  \E c \in Callers :
    /\ policy.failures = MaxFailures
    /\ seen.tstreak = MaxFailures /\ seen.win = MaxFailures
    /\ breaker.state = "open"
    /\ pc[c] = "returned" /\ res[c].err = DeadlineExceeded
    /\ hist[c].dl = "parked"
    /\ ctxErr = Nil

\* Goroutines the timeout guard has launched in the current call of c: those
\* that have invoked the operation and those about to.
Launched(c) ==
  hist[c].invoked + orph[c]["cur"].ready
  + (IF guard[c].gpc = "ready" THEN 1 ELSE 0)

C15_NoGuardIsIdentity ==
  /\ policy.timeout = 0 /\ ~policy.retry /\ ~policy.cb
  /\ \A c \in Callers :
       /\ hist[c].invoked <= 1
       /\ hist[c].tries = 0 /\ hist[c].rejected = Nil
       /\ guard[c] = InitGuard /\ retryst[c].numTries = 0
       /\ pc[c] = "returned"
          => /\ hist[c].invoked = 1
             /\ res[c] = Result(hist[c].last.val, hist[c].last.err, FALSE)
             /\ hist[c].last \in OpOutcomes

C15_Witness ==
  \E c, d \in Callers :
    /\ policy = EmptyPolicy
    /\ pc[c] = "returned" /\ res[c] = Result(Nil, "e1", FALSE)
    /\ pc[d] = "returned" /\ res[d] = Result("v1", Nil, FALSE)
    /\ hist[c].invoked = 1 /\ hist[d].invoked = 1
    /\ ctxErr = Canceled

(* ------------------------------ claims: panics and goroutines --------- *)
\* C16: timeout guard alone: a call whose operation panicked returns an
\* ordinary non-nil error (the recovered panic's, or the deadline's or the
\* context's when that came first) and no value; the goroutine that recovered
\* ends with its next step, or is left with that one step when the waiter
\* returns first.
C16_PanicBecomesError ==
  /\ [](\A c \in Callers :
          /\ (hist[c].panicked /\ pc[c] = "returned")
             => /\ res[c].val = Nil
                /\ res[c].err \in {ErrPanicked, DeadlineExceeded, Canceled}
          /\ (pc[c] = "returned" /\ res[c].err = ErrPanicked) => hist[c].panicked)
  /\ [][\A c \in Callers :
          (guard[c].gpc = "recover" /\ guard'[c].gpc # "recover")
          => \/ guard'[c].gpc = "exited"
             \/ /\ guard'[c].gpc = "none"
                /\ res'[c] = Result(Nil, ErrPanicked, FALSE)
                /\ orph'[c] = orph[c]
             \/ /\ guard'[c].gpc = "none"
                /\ res'[c].err \in {DeadlineExceeded, Canceled}
                /\ orph'[c]["cur"].deliver = orph[c]["cur"].deliver + 1]_vars

C16_Witness ==
  \E c \in Callers :
    /\ hist[c].panicked /\ pc[c] = "returned"
    /\ res[c] = Result(Nil, ErrPanicked, FALSE)
    /\ hist[c].dl = "no" /\ ctxErr = Nil

\* Goroutines of c's calls whose operation has returned or panicked and which
\* have their delivery step left.
Delivering(c) ==
  (IF guard[c].gpc \in {"deliver", "recover"} THEN 1 ELSE 0)
  + orph[c]["cur"].deliver + orph[c]["old"].deliver

RunningAlone(c) == orph[c]["cur"].running + orph[c]["old"].running

\* C18: timeout guard alone: when the ambient context ends while the waiter is
\* blocked and the operation has not returned, the waiter returns the context's
\* error in that step, and the operation goes on: its goroutine stays, and an
\* invocation left running ends only by returning.
C18_CancelStopsTheWaitOnly ==
  [][\A c \in Callers :
       /\ (pc[c] = "to_parked" /\ guard[c].gpc \in {"ready", "running"}
             /\ ctxErr = Nil /\ ctxErr' # Nil)
            => /\ pc'[c] = "attempt_done"
               /\ res'[c] = Result(Nil, ctxErr', FALSE)
               /\ hist'[c] = hist[c]
               /\ orph'[c]["cur"][guard[c].gpc] = orph[c]["cur"][guard[c].gpc] + 1
       /\ RunningAlone(c)' < RunningAlone(c)
            => /\ RunningAlone(c)' = RunningAlone(c) - 1
               /\ orph'[c]["cur"].deliver + orph'[c]["old"].deliver
                    = orph[c]["cur"].deliver + orph[c]["old"].deliver + 1]_vars

C18_Witness ==
  \E c \in Callers :
    /\ pc[c] = "returned" /\ res[c] = Result(Nil, Canceled, FALSE)
    /\ hist[c].invoked = 1 /\ hist[c].dl = "no"
    /\ hist[c].nfail + hist[c].nsucc = 0
    /\ orph[c]["cur"].running = 1

(* ------------------------------ claims: shared breaker ---------------- *)
\* C19: callers running concurrently through one breaker: no recorded outcome
\* is lost.  While the breaker is closed its count of consecutive failures is
\* the number of failed calls it has recorded since the last recorded success
\* and since the counts were last cleared, and that number is below F; once F
\* such failures have been recorded the breaker is open.
C19_NoRecordedOutcomeLost ==
  /\ breaker.state = "closed"
     => breaker.consecFail = seen.win /\ seen.win < policy.failures
  /\ seen.win >= policy.failures => breaker.state = "open"

C19_Witness ==
  /\ policy.failures = MaxFailures
  /\ seen.win = MaxFailures /\ seen.lastCall = "fail"
  /\ breaker.state = "open"
  /\ \A c \in Callers :
       /\ pc[c] = "attempt_done" /\ res[c].err \in OpErrors
       /\ gen[c] = 1 /\ hist[c].invoked = 1
  /\ ncalls = MaxCalls - NumCallers

(* ------------------------------ claims: IsErrorPermanent -------------- *)
\* C20 as stated: IsErrorPermanent is true exactly for the open-state error and
\* the too-many-requests error, false for every other error and for nil.
C20_Original ==
  \A c \in Callers :
    pc[c] = "classified"
    => res[c].perm = (res[c].err \in {ErrOpenState, ErrTooManyRequests})

\* C20 amended: IsErrorPermanent is true exactly for the open-state error, the
\* too-many-requests error and the errors that wrap one of them, at any depth;
\* false for nil and every other error.
C20_PermanentIffInChain ==
  \A c \in Callers :
    pc[c] = "classified"
    => res[c].perm =
         (res[c].err \in {ErrOpenState, ErrTooManyRequests, "wrap(ErrOpenState)",
                          "wrap(ErrTooManyRequests)", "wrap(wrap(ErrOpenState))"})

C20_Witness ==
  \E c, d \in Callers :
    /\ pc[c] = "classified" /\ res[c].err = ErrTooManyRequests /\ res[c].perm
    /\ pc[d] = "classified" /\ res[d].err = Nil /\ ~res[d].perm

(* ------------------------------ claims: error content ----------------- *)
\* C21 as stated: retry-only, maxRetries = N >= 0, live context: whatever errors
\* the invocations returned, a call whose operation failed every time has
\* invoked it N+1 times.
C21_Original ==
  \A c \in Callers :
    (/\ pc[c] = "returned"
     /\ policy.maxRetries >= 0
     /\ ctxErr = Nil
     /\ hist[c].nfail = hist[c].invoked)
    => hist[c].invoked = policy.maxRetries + 1

\* C21: retry-only, maxRetries = N >= 0, live context: after a failed attempt
\* whose error neither is nor wraps a backoff.PermanentError the loop goes on
\* exactly when fewer than N+1 invocations were made, whatever the error is (a
\* wrapped error, context.DeadlineExceeded or ErrOpenState returned by the
\* operation, a plain error), so an operation failing with such errors is
\* invoked N+1 times and the call returns the last error; an error that is or
\* wraps a PermanentError ends the loop at once with the marked error.
C21_ErrorContentIgnoredUnlessPermanent ==
  /\ [](\A c \in Callers :
          (/\ pc[c] = "returned"
           /\ policy.maxRetries >= 0
           /\ ctxErr = Nil
           /\ hist[c].nfail = hist[c].invoked
           /\ hist[c].errs \cap PermanentErrors = {})
          => /\ hist[c].invoked = policy.maxRetries + 1
             /\ res[c] = Result(Nil, hist[c].last.err, FALSE))
  /\ [][\A c \in Callers :
          (/\ pc[c] = "attempt_done" /\ pc'[c] # "attempt_done"
           /\ policy.maxRetries >= 0
           /\ ctxErr = Nil)
          => IF hist[c].last.err \in PermanentErrors
               THEN /\ pc'[c] = "returned"
                    /\ res'[c] = Result(Nil, "e1", FALSE)
             ELSE (pc'[c] = "returned")
                    <=> (hist[c].invoked = policy.maxRetries + 1)]_vars

C21_Witness ==
  \E c \in Callers :
    /\ pc[c] = "returned" /\ ctxErr = Nil
    /\ policy.maxRetries = MaxRetriesBound
    /\ hist[c].errs = {"wrap(e1)", DeadlineExceeded, "e2"}
    /\ hist[c].invoked = MaxRetriesBound + 1
    /\ res[c] = Result(Nil, "e2", FALSE)

(* ------------------------------ claims: provider ---------------------- *)
\* The target selects a timeout, retry or breaker name that has no definition.
Dangling(cfg, t) ==
  /\ t \in DOMAIN cfg.Targets
  /\ \/ cfg.Targets[t].timeout \notin DOMAIN cfg.Timeouts \cup {""}
     \/ cfg.Targets[t].retry \notin DOMAIN cfg.Retries \cup {""}
     \/ cfg.Targets[t].circuitBreaker \notin DOMAIN cfg.CircuitBreakers \cup {""}

\* C22: when a target of the config selects a timeout, retry or breaker name
\* that has no definition, FromConfig returns no provider, and no policy is
\* handed out for that target.
C22_Original ==
  \A t \in TargetNames :
    Dangling(prov.cfg, t)
    => /\ prov.p = {}
       /\ \A c \in Callers : prov.pol[c].target # t

\* The duration texts that are neither empty, nor a bare integer, nor a
\* sequence of numbers with the units ms, s or m.
MalformedTexts == {<<"1", "x">>, <<"x">>, <<"m", "s">>, <<"1", "m", "1">>}

\* The definitions of the config with a malformed duration text.
MalformedIn(cfg) ==
  { [in |-> "timeout", name |-> n] :
      n \in { m \in DOMAIN cfg.Timeouts : cfg.Timeouts[m] \in MalformedTexts } }
  \cup
  { [in |-> "retry", name |-> n] :
      n \in { m \in DOMAIN cfg.Retries : cfg.Retries[m].Duration \in MalformedTexts } }
  \cup
  { [in |-> "circuit breaker", name |-> n] :
      n \in { m \in DOMAIN cfg.CircuitBreakers :
                \/ cfg.CircuitBreakers[m].Interval \in MalformedTexts
                \/ cfg.CircuitBreakers[m].Timeout \in MalformedTexts } }

\* C23: FromConfig returns an error (about one of the malformed definitions) and
\* no provider when any timeout, retry or breaker definition of the config has
\* a malformed duration text, referenced by a target or not, and a provider and
\* no error when every duration text is well formed.
C23_MalformedDurationFailsConstruction ==
  /\ [](/\ prov.err # {} => prov.p = {} /\ prov.err \subseteq MalformedIn(prov.cfg)
        /\ prov.p # {} => prov.err = {} /\ MalformedIn(prov.cfg) = {})
  /\ [][(prov.p = {} /\ prov.err = {} /\ prov' # prov)
          => IF MalformedIn(prov.cfg) # {}
               THEN prov'.err # {} /\ prov'.p = {}
             ELSE prov'.p # {} /\ prov'.err = {}]_vars

C23_Witness ==
  /\ prov.err = {[in |-> "circuit breaker", name |-> "b"]}
  /\ prov.p = {}
  /\ DOMAIN prov.cfg.Targets = {}
  /\ MalformedIn(prov.cfg) = prov.err
  /\ DOMAIN prov.cfg.Timeouts = GuardNames

(* ------------------------------ claims: state machine ------------------ *)
\* C24: with callers running concurrently through a breaker, every change of
\* the breaker's state is closed -> open, open -> half-open, half-open ->
\* closed or half-open -> open (so never closed -> half-open, never open ->
\* closed), and the breaker leaves open only in a step that finds the
\* cool-down elapsed.
C24_OnlyFourTransitions ==
  [][breaker'.state # breaker.state
       => /\ <<breaker.state, breaker'.state>> \in
               {<<"closed", "open">>, <<"open", "half-open">>,
                <<"half-open", "closed">>, <<"half-open", "open">>}
          /\ breaker.state = "open" => breaker.expires /\ breaker.left < 0]_vars

\* All four changes have happened: closed, open, half-open, open, half-open,
\* closed are the six generations of a breaker without counter interval.
C24_Witness ==
  /\ policy.interval = 0
  /\ breaker.state = "closed"
  /\ breaker.generation = 6
  /\ seen.lastCall = "probe_ok"

\* C25 as stated: threshold F >= 2: a successful call that completes while the
\* breaker is closed leaves it closed with a consecutive-failure count of zero,
\* and a closed breaker opens only when the last F completed calls failed, so
\* it stays closed over calls with fewer than F failures in a row between
\* successes.
C25_Original ==
  [][\A c \in Callers :
       /\ (Recorded(c) /\ res[c].err = Nil /\ breaker.state = "closed")
            => breaker'.state = "closed" /\ breaker'.consecFail = 0
       /\ (breaker.state = "closed" /\ breaker'.state # "closed")
            => seen'.streak >= policy.failures]_vars

\* C25: threshold F >= 2, callers running concurrently: a successful call that
\* the closed breaker counts (one admitted in the generation the breaker is in
\* when the call completes) leaves it closed with a consecutive-failure count
\* of zero, and a closed breaker opens only when F counted failures have come
\* in a row since the last counted success, so it stays closed over calls with
\* fewer than F counted failures in a row, whatever their total.
C25_CountedSuccessResetsTheCount ==
  [][\A c \in Callers :
       /\ (/\ Recorded(c) /\ res[c].err = Nil
           /\ breaker.state = "closed"
           /\ breaker'.generation = gen[c])
            => breaker'.state = "closed" /\ breaker'.consecFail = 0
       /\ (breaker.state = "closed" /\ breaker'.state # "closed")
            => /\ Recorded(c) => res[c].err # Nil
               /\ seen'.win >= policy.failures]_vars

\* Threshold 2: three counted failures in all, never two in a row, and the
\* breaker is still in its first generation after the fifth call.
C25_Witness ==
  /\ policy.failures = 2 /\ policy.interval = 0
  /\ breaker.state = "closed" /\ breaker.generation = 1
  /\ breaker.totalFail = 3
  /\ breaker.requests = MaxLongCalls
  /\ \A c \in Callers : pc[c] \in {"idle", "returned"}

(* ------------------------------ claims: retry around a breaker --------- *)
\* The breaker has seen neither its counter interval nor its cool-down expire
\* since it was made: it is in its first generation, or open in its second.
NothingExpired ==
  \/ breaker.state = "closed" /\ breaker.generation = 1
  \/ breaker.state = "open" /\ breaker.generation = 2

Min(a, b) == IF a <= b THEN a ELSE b

\* C26: retry (maxRetries = N >= 0) around a breaker (threshold F >= 1) that is
\* as made (closed, no failures), live context, neither the counter interval
\* nor the cool-down expiring during the call: the first call, when its
\* operation failed at every invocation, has invoked it min(F, N+1) times and
\* returns ErrOpenState when F <= N, the error of the last invocation when
\* F > N.
C26_InvokedMinOfThresholdAndBudget ==
  \A c \in Callers :
    (/\ pc[c] = "returned"
     /\ ncalls = MaxLoopCalls - 1
     /\ ctxErr = Nil
     /\ hist[c].nsucc = 0
     /\ NothingExpired)
    => /\ hist[c].invoked = Min(policy.failures, policy.maxRetries + 1)
       /\ hist[c].nfail = hist[c].invoked
       /\ IF policy.failures <= policy.maxRetries
            THEN res[c] = Result(Nil, ErrOpenState, FALSE)
          ELSE res[c] = Result(Nil, hist[c].last.err, FALSE) /\ res[c].err \in OpErrors

C26_Witness ==
  \E c \in Callers :
    /\ pc[c] = "returned" /\ ncalls = MaxLoopCalls - 1 /\ ctxErr = Nil
    /\ policy.failures = MaxFailures /\ policy.maxRetries = MaxRetriesBound
    /\ NothingExpired
    /\ hist[c].invoked = MaxFailures /\ hist[c].nfail = MaxFailures
    /\ res[c] = Result(Nil, ErrOpenState, FALSE)

(* ------------------------------ claims: shared breaker ---------------- *)
\* The breaker name the target of c's Policy selects.
Selected(c) == prov.cfg.Targets[prov.pol[c].target].circuitBreaker

\* C27: policies a provider hands out for targets that select the same breaker
\* name, and for one target at repeated Policy calls, share one breaker: once a
\* failure recorded through one executor has opened the breaker, a call through
\* any executor whose policy selects that name, made before the cool-down has
\* elapsed, returns ErrOpenState and its operation is not invoked.
C27_OneBreakerPerName ==
  [][\A d \in Callers :
       (/\ pc[d] = "cb_before" /\ pc'[d] # "cb_before"
        /\ prov.trip[Selected(d)].age \in 0..policy.cbTimeout)
       => /\ pc'[d] = "attempt_done"
          /\ res'[d] = Result(Nil, ErrOpenState, FALSE)
          /\ hist'[d].invoked = 0]_vars

\* Caller 1's failures through target "a" opened the breaker; caller 2's call
\* through target "b", which selects the same name, was rejected.
C27_Witness ==
  /\ prov.pol[1].target = "a" /\ prov.pol[2].target = "b"
  /\ Selected(1) = Selected(2)
  /\ prov.trip[Selected(2)] = [by |-> 1, age |-> 0]
  /\ policy.failures = MaxFailures
  /\ pc[2] = "returned"
  /\ res[2] = Result(Nil, ErrOpenState, FALSE)
  /\ hist[2].invoked = 0

====
